---- MODULE Spec2Model ----
(***************************************************************************)
(* A model of the volydog storefront (src/app.py): the relational tables   *)
(* User, Product, Order, OrderItem and SiteSettings, the login session,    *)
(* and one action per request handler.  The reading of the wall clock     *)
(* that an order number is drawn from is an input of checkout.             *)
(*                                                                         *)
(* Text that the code only stores and compares (usernames, e-mails, form   *)
(* fields) is a TLA+ string.  Text that the code takes apart (uploaded     *)
(* filenames, breeds) is a sequence of one-character strings, so that      *)
(* rsplit, lower, strip, title and secure_filename are computed.           *)
(***************************************************************************)
EXTENDS Integers, Sequences, FiniteSets, TLC

(***************************************************************************)
(* Bounds of the model.                                                    *)
(***************************************************************************)
MaxUsers == 3
MaxProducts == 2
MaxOrders == 2
MaxShopOrders == 1
MaxCatalog == 1
MaxTime == 1
MaxImages == 2

(***************************************************************************)
(* NULL / None.  Ids start at 1, so 0 stands for a NULL id.                *)
(***************************************************************************)
None == "<None>"
NoId == 0

(***************************************************************************)
(* Text as sequences of characters.                                        *)
(***************************************************************************)
LowerLetters ==
  << "a", "b", "c", "d", "e", "f", "g", "h", "i", "j", "k", "l", "m",
     "n", "o", "p", "q", "r", "s", "t", "u", "v", "w", "x", "y", "z" >>

UpperLetters ==
  << "A", "B", "C", "D", "E", "F", "G", "H", "I", "J", "K", "L", "M",
     "N", "O", "P", "Q", "R", "S", "T", "U", "V", "W", "X", "Y", "Z" >>

Range(s) == { s[i] : i \in DOMAIN s }

LowerSet == Range(LowerLetters)
UpperSet == Range(UpperLetters)

IsLower(c) == c \in LowerSet
IsUpper(c) == c \in UpperSet
IsLetter(c) == IsLower(c) \/ IsUpper(c)
IsDigit(c) == c \in { "0", "1", "2", "3", "4", "5", "6", "7", "8", "9" }
IsSpace(c) == c = " "

\* str.lower() and str.upper() on one character
ToLower ==
  [ c \in UpperSet |->
      LowerLetters[CHOOSE i \in DOMAIN UpperLetters : UpperLetters[i] = c] ]

ToUpper ==
  [ c \in LowerSet |->
      UpperLetters[CHOOSE i \in DOMAIN LowerLetters : LowerLetters[i] = c] ]

LowerChar(c) == IF IsUpper(c) THEN ToLower[c] ELSE c

UpperChar(c) == IF IsLower(c) THEN ToUpper[c] ELSE c

\* str.lower()
Lower(s) == [ i \in DOMAIN s |-> LowerChar(s[i]) ]

\* str.strip(): leading and trailing whitespace removed
RECURSIVE LStrip(_)
LStrip(s) ==
  IF s # << >> /\ IsSpace(Head(s)) THEN LStrip(Tail(s)) ELSE s

RECURSIVE RStrip(_)
RStrip(s) ==
  IF s # << >> /\ IsSpace(s[Len(s)])
    THEN RStrip(SubSeq(s, 1, Len(s) - 1))
    ELSE s

Strip(s) == RStrip(LStrip(s))

\* str.title(): a letter that follows a non-letter (or starts the text) is
\* upper-cased, every other letter is lower-cased
Title(s) ==
  [ i \in DOMAIN s |->
      IF i = 1 \/ ~IsLetter(s[i - 1])
        THEN UpperChar(s[i])
        ELSE LowerChar(s[i]) ]

\* s.rsplit('.', 1): <<s>> when s has no dot, else <<before, after>> the last dot
LastDot(s) ==
  IF \E i \in DOMAIN s : s[i] = "."
    THEN CHOOSE i \in DOMAIN s :
           s[i] = "." /\ \A j \in DOMAIN s : s[j] = "." => j <= i
    ELSE 0

RSplitDot(s) ==
  IF LastDot(s) = 0
    THEN << s >>
    ELSE << SubSeq(s, 1, LastDot(s) - 1), SubSeq(s, LastDot(s) + 1, Len(s)) >>


(***************************************************************************)
(* Upload helpers: allowed_file, werkzeug's secure_filename as called by   *)
(* add_product and edit_product, and the stored relative path.             *)
(***************************************************************************)
ALLOWED_EXTENSIONS ==
  { << "p", "n", "g" >>, << "j", "p", "g" >>, << "j", "p", "e", "g" >>,
    << "g", "i", "f" >>, << "w", "e", "b", "p" >>, << "b", "m", "p" >> }

\* allowed_file with .lower() left out
allowed_file_case_sensitive(filename) ==
  /\ "." \in Range(filename)
  /\ RSplitDot(filename)[2] \in ALLOWED_EXTENSIONS

allowed_file(filename) ==
  /\ "." \in Range(filename)
  /\ Lower(RSplitDot(filename)[2]) \in ALLOWED_EXTENSIONS

\* "_".join(s.split()) for a text without leading or trailing whitespace
RECURSIVE JoinWords(_)
JoinWords(s) ==
  IF s = << >> THEN << >>
  ELSE IF IsSpace(Head(s)) THEN << "_" >> \o JoinWords(LStrip(s))
  ELSE << Head(s) >> \o JoinWords(Tail(s))

IsFilenameChar(c) == IsLetter(c) \/ IsDigit(c) \/ c \in { "_", ".", "-" }

RECURSIVE LStripDots(_)
LStripDots(s) ==
  IF s # << >> /\ Head(s) \in { ".", "_" } THEN LStripDots(Tail(s)) ELSE s

RECURSIVE RStripDots(_)
RStripDots(s) ==
  IF s # << >> /\ s[Len(s)] \in { ".", "_" }
    THEN RStripDots(SubSeq(s, 1, Len(s) - 1))
    ELSE s

\* secure_filename: path separators become spaces, words are joined with "_",
\* characters outside [A-Za-z0-9_.-] are dropped, "." and "_" are stripped
\* from both ends
secure_filename(filename) ==
  LET spaced == [ i \in DOMAIN filename |->
                    IF filename[i] = "/" THEN " " ELSE filename[i] ]
      joined == JoinWords(Strip(spaced))
  IN  RStripDots(LStripDots(SelectSeq(joined, IsFilenameChar)))

\* f'uploads/{filename}'
UploadPath(filename) == << "uploads/" >> \o filename

\* bool(image_file): a FileStorage is true when it has a filename
FilePresent(filename) == filename # << >>

\* the loop of add_product and edit_product over the uploaded files: the
\* paths of the accepted files, in submission order
RECURSIVE AcceptedPaths(_)
AcceptedPaths(image_files) ==
  IF image_files = << >> THEN << >>
  ELSE LET image_file == Head(image_files)
       IN  IF FilePresent(image_file) /\ allowed_file(image_file)
             THEN << UploadPath(secure_filename(image_file)) >>
                    \o AcceptedPaths(Tail(image_files))
             ELSE AcceptedPaths(Tail(image_files))

\* the uploaded filenames of the model and the lists they are submitted in
FileAPng == << "a", ".", "p", "n", "g" >>
FileBJpgUpper == << "b", ".", "J", "P", "G" >>
FileMalwareExe == << "m", "a", "l", "w", "a", "r", "e", ".", "e", "x", "e" >>
FilePngExe == << "a", ".", "p", "n", "g", ".", "e", "x", "e" >>
FileNoDot == << "p", "n", "g" >>
FileTraversal == << ".", ".", "/", "a", ".", "p", "n", "g" >>
FileEmpty == << >>

FileLists ==
  { << >>, << FileAPng >>, << FileMalwareExe >>,
    << FileAPng, FileBJpgUpper >>, << FileBJpgUpper, FileMalwareExe >>,
    << FilePngExe, FileNoDot, FileEmpty >>, << FileTraversal, FileAPng >> }

\* the outcome of the upload loop for each submitted list
UploadedPaths == [ image_files \in FileLists |-> AcceptedPaths(image_files) ]

(***************************************************************************)
(* Breed normalisation of add_product and edit_product, and of the         *)
(* listing filter; a missing or empty form field is << >>.                 *)
(***************************************************************************)
NoBreed == << "<None>" >>

NormalizeBreed(raw_breed) ==
  IF raw_breed = << >> \/ raw_breed = NoBreed THEN NoBreed
  ELSE IF Strip(raw_breed) = << >> THEN NoBreed
  ELSE Title(Strip(raw_breed))

\* the breeds submitted in the model, and the normalisation of each
Labrador == << "l", "a", "b", "r", "a", "d", "o", "r" >>

LabradorTitled == << "L", "a", "b", "r", "a", "d", "o", "r" >>

LabradorUpper == << "L", "A", "B", "R", "A", "D", "O", "R" >>

LabradorSpaced == << " ", "l", "a", "b", "r", "a", "d", "o", "r", " " >>

StBernard == << "s", "t", " ", "b", "E", "R", "N", "A", "R", "D" >>

Blank == << " ", " " >>

Breeds ==
  { << >>, Labrador, LabradorTitled, LabradorUpper, LabradorSpaced,
    StBernard, Blank }

NormalizedBreeds == [ raw_breed \in Breeds |-> NormalizeBreed(raw_breed) ]

(***************************************************************************)
(* float(text) of the form fields price, rating and total_amount.  The     *)
(* amounts of the model are whole numbers.                                 *)
(***************************************************************************)
FloatTable ==
  ("0" :> 0) @@ ("4" :> 4) @@ ("500.0" :> 500) @@ ("750" :> 750)

\* float(x) raises for None and for text that is no number
FloatRaises(text) == text \notin DOMAIN FloatTable

Float(text) == FloatTable[text]

(***************************************************************************)
(* additional_details: zip(detail_key[], detail_value[]) keeping the pairs *)
(* with both sides non-empty; a later pair overwrites an earlier one with  *)
(* the same key.  The mapping is a set of <<key, value>> pairs.            *)
(***************************************************************************)
RECURSIVE BuildDetails(_, _, _)
BuildDetails(details_keys, details_values, acc) ==
  IF details_keys = << >> \/ details_values = << >> THEN acc
  ELSE LET key == Head(details_keys)
           value == Head(details_values)
           next == IF key # "" /\ value # ""
                     THEN { kv \in acc : kv[1] # key } \cup { << key, value >> }
                     ELSE acc
       IN  BuildDetails(Tail(details_keys), Tail(details_values), next)

(***************************************************************************)
(* State.                                                                  *)
(***************************************************************************)
VARIABLES
  users,          \* table user, in insertion order; a row's id is its index
  products,       \* table product: the rows by id
  next_product_id, \* the next autoincrement id of table product
  orders,         \* table order, in insertion order; a row's id is its index
  order_items,    \* table order_item, in insertion order
  site_settings,  \* table site_settings, in insertion order
  current_user,   \* the session: the id of the logged-in user, or NoId
  settings_req,   \* the admin_site_settings POSTs in flight, by worker thread
  response        \* the outcome of the last request handled

db == << users, products, next_product_id, orders, order_items, site_settings >>

vars == << users, products, next_product_id, orders, order_items,
           site_settings, current_user, settings_req,
           response >>

Threads == { 1, 2 }

\* what a request is answered with: the handler and its outcome
Response(op, status) == [ op |-> op, status |-> status ]

\* the readings of datetime.now(), in seconds
Times == 0 .. MaxTime

\* generate_password_hash / check_password_hash: a hash verifies exactly the
\* password it was made from
generate_password_hash(password) == << "hash", password >>

check_password_hash(pwhash, password) == pwhash = generate_password_hash(password)

\* the admin seeded by the main block when ADMIN_USERNAME, ADMIN_EMAIL,
\* CONTACT_EMAIL and ADMIN_PASSWORD are not configured
SeededAdmin ==
  [ id |-> 1, username |-> "admin", email |-> "admin@gmail.com",
    password_hash |-> generate_password_hash("change_me"),
    phone |-> None, address |-> None, is_admin |-> TRUE ]

Init ==
  /\ users = << SeededAdmin >>
  /\ products = << >>
  /\ next_product_id = 1
  /\ orders = << >>
  /\ order_items = << >>
  /\ site_settings = << >>
  /\ current_user = NoId
  /\ settings_req = [ t \in Threads |-> [ pc |-> "idle" ] ]
  /\ response = Response("none", "none")

(***************************************************************************)
(* The session and the route guards.                                       *)
(***************************************************************************)
is_authenticated == current_user # NoId

\* the guard with the is_admin test left out
is_admin_any_login == is_authenticated

\* current_user.is_admin, reached only behind @login_required
is_admin == is_authenticated /\ users[current_user].is_admin

\* @login_required followed by "if not current_user.is_admin"
GuardOutcome ==
  IF ~is_authenticated THEN "login_required"
  ELSE IF ~is_admin THEN "access_denied"
  ELSE "ok"

(***************************************************************************)
(* Accounts: register, user_login, logout.                                 *)
(***************************************************************************)
\* User.query.filter_by(username=username).first()
UserByUsername(username) ==
  IF \E i \in DOMAIN users : users[i].username = username
    THEN CHOOSE i \in DOMAIN users :
           users[i].username = username
           /\ \A j \in DOMAIN users : users[j].username = username => i <= j
    ELSE NoId

\* the e-mail test of register left out
email_never_registered(email) == NoId

\* User.query.filter_by(email=email).first()
UserByEmail(email) ==
  IF \E i \in DOMAIN users : users[i].email = email
    THEN CHOOSE i \in DOMAIN users :
           users[i].email = email
           /\ \A j \in DOMAIN users : users[j].email = email => i <= j
    ELSE NoId

\* the constraints of table user on an insert: nullable=False and unique=True
\* on username and on email
UserInsertOK(row) ==
  /\ row.username # None
  /\ row.email # None
  /\ \A i \in DOMAIN users :
       users[i].username # row.username /\ users[i].email # row.email

register(username, email, password) ==
  /\ UNCHANGED << products, next_product_id, orders, order_items,
                  site_settings, current_user, settings_req >>
  /\ IF UserByUsername(username) # NoId
       THEN response' = Response("register", "username_exists") /\ UNCHANGED users
     ELSE IF UserByEmail(email) # NoId
       THEN response' = Response("register", "email_registered") /\ UNCHANGED users
     ELSE IF password = None
       THEN response' = Response("register", "error_500") /\ UNCHANGED users
     ELSE LET user == [ id |-> Len(users) + 1, username |-> username,
                        email |-> email,
                        password_hash |-> generate_password_hash(password),
                        phone |-> None, address |-> None, is_admin |-> FALSE ]
          IN  IF UserInsertOK(user)
                THEN /\ users' = Append(users, user)
                     /\ response' = Response("register", "registered")
                ELSE response' = Response("register", "error_500") /\ UNCHANGED users

user_login(username, password) ==
  /\ UNCHANGED << db, settings_req >>
  /\ LET user == UserByUsername(username)
     IN  IF user # NoId /\ check_password_hash(users[user].password_hash, password)
           THEN current_user' = user /\ response' = Response("user_login", "logged_in")
           ELSE response' = Response("user_login", "invalid_login") /\ UNCHANGED current_user

logout ==
  /\ UNCHANGED << db, settings_req >>
  /\ IF ~is_authenticated
       THEN response' = Response("logout", "login_required") /\ UNCHANGED current_user
       ELSE current_user' = NoId /\ response' = Response("logout", "logged_out")

(***************************************************************************)
(* Products: add_product, edit_product, delete_product,                    *)
(* delete_product_image.  The state is the database: the files written     *)
(* under UPLOAD_FOLDER are named by the rows and are not kept besides.     *)
(***************************************************************************)
\* Product.query.get(product_id): the row, when there is one
HasProduct(product_id) == product_id \in DOMAIN products

ProductById(product_id) == products[product_id]

\* float(request.form.get('rating') or 0.0)
RatingText(form) == IF form.rating \in { None, "" } THEN "0" ELSE form.rating

add_product(form, image_files) ==
  /\ UNCHANGED << users, orders, order_items, site_settings, current_user,
                  settings_req >>
  /\ IF GuardOutcome # "ok"
       THEN /\ response' = Response("add_product", GuardOutcome)
            /\ UNCHANGED << products, next_product_id >>
     ELSE
       LET image_urls == UploadedPaths[image_files]
           breed == NormalizedBreeds[form.breed]
           additional_details ==
             BuildDetails(form.detail_keys, form.detail_values, { })
       IN  /\ IF \/ FloatRaises(form.price)
                 \/ FloatRaises(RatingText(form))
                 \/ form.name = None
                THEN /\ response' = Response("add_product", "error_500")
                     /\ UNCHANGED << products, next_product_id >>
                ELSE /\ products' = products @@ (next_product_id :>
                          [ id |-> next_product_id,
                              name |-> form.name,
                              breed |-> breed,
                              gender |-> form.gender,
                              age |-> form.age,
                              price |-> Float(form.price),
                              rating |-> Float(RatingText(form)),
                              description |-> form.description,
                              image_urls |-> image_urls,
                              additional_details |-> additional_details,
                              is_available |-> TRUE ])
                     /\ next_product_id' = next_product_id + 1
                     /\ response' = Response("add_product", "product_added")

\* the rating of edit_product: 0.0 when the text is no number
EditRating(form) ==
  IF FloatRaises(RatingText(form)) THEN 0 ELSE Float(RatingText(form))

\* The image list edit_product may leave in the row.  `existing` is the row's
\* own list when that is non-empty: it is appended to in place and assigned
\* back, so the loaded value the ORM compares with has changed with it, and
\* whether the column is written depends on the ORM's change detection.  Both
\* outcomes are kept.  An empty or NULL list is replaced by a fresh list.
EditedImageLists(product, image_files) ==
  IF image_files = << >> THEN { product.image_urls }
  ELSE IF product.image_urls = << >>
    THEN { UploadedPaths[image_files] }
    ELSE { product.image_urls \o UploadedPaths[image_files],
           product.image_urls }

edit_product(product_id, form, image_files) ==
  /\ UNCHANGED << users, orders, order_items, site_settings, current_user,
                  settings_req, next_product_id >>
  /\ IF GuardOutcome # "ok"
       THEN response' = Response("edit_product", GuardOutcome) /\ UNCHANGED products
     ELSE IF ~HasProduct(product_id)
       THEN response' = Response("edit_product", "not_found") /\ UNCHANGED products
     ELSE IF FloatRaises(form.price)
       THEN response' = Response("edit_product", "error_500") /\ UNCHANGED products
     ELSE
       LET product == ProductById(product_id)
       IN  /\ IF form.name = None
                THEN response' = Response("edit_product", "error_500") /\ UNCHANGED products
                ELSE \E image_urls \in EditedImageLists(product, image_files) :
                       /\ products' = [ products EXCEPT ![product_id] =
                              [ product EXCEPT
                                  !.name = form.name,
                                  !.breed = NormalizedBreeds[form.breed],
                                  !.gender = form.gender,
                                  !.age = form.age,
                                  !.price = Float(form.price),
                                  !.rating = EditRating(form),
                                  !.description = form.description,
                                  !.image_urls = image_urls,
                                  !.additional_details =
                                    BuildDetails(form.detail_keys,
                                                 form.detail_values, { }) ] ]
                       /\ response' = Response("edit_product", "product_updated")

\* The OrderItem rows of Product.orders.  Deleting the product sets their
\* product_id to NULL, which the column (nullable=False) refuses.
\* no row ever counted as referencing the product
NeverReferenced(product_id) == FALSE

ProductReferenced(product_id) ==
  \E i \in DOMAIN order_items : order_items[i].product_id = product_id

delete_product(product_id) ==
  /\ UNCHANGED << users, orders, order_items, site_settings,
                  current_user, settings_req, next_product_id >>
  /\ IF GuardOutcome # "ok"
       THEN response' = Response("delete_product", GuardOutcome) /\ UNCHANGED products
     ELSE IF ~HasProduct(product_id)
       THEN response' = Response("delete_product", "not_found") /\ UNCHANGED products
     ELSE IF ProductReferenced(product_id)
       THEN response' = Response("delete_product", "error_500") /\ UNCHANGED products
     ELSE /\ products' = [ id \in DOMAIN products \ { product_id } |->
                             products[id] ]
          /\ response' = Response("delete_product", "deleted")

\* every occurrence removed, as a filter would
ListRemoveEvery(list, x) == SelectSeq(list, LAMBDA y : y # x)

\* list.remove(x): the first occurrence is removed
FirstIndex(list, x) ==
  CHOOSE i \in DOMAIN list : list[i] = x /\ \A j \in DOMAIN list : list[j] = x => i <= j

ListRemove(list, x) ==
  SubSeq(list, 1, FirstIndex(list, x) - 1)
    \o SubSeq(list, FirstIndex(list, x) + 1, Len(list))

\* image_urls is always a list here: add_product and edit_product store
\* nothing else, so the comma-joined text branch is never taken.  The file
\* removed from disk afterwards is no part of the tables.
delete_product_image(product_id, filename) ==
  /\ UNCHANGED << users, orders, order_items, site_settings, current_user,
                  settings_req, next_product_id >>
  /\ IF GuardOutcome # "ok"
       THEN response' = Response("delete_product_image", GuardOutcome) /\ UNCHANGED products
     ELSE IF ~HasProduct(product_id)
       THEN response' = Response("delete_product_image", "not_found") /\ UNCHANGED products
     ELSE IF filename = << >>
       THEN response' = Response("delete_product_image", "no_filename") /\ UNCHANGED products
     ELSE
       LET product == ProductById(product_id)
           imgs_list == product.image_urls
       IN  IF filename \notin Range(imgs_list)
             THEN /\ response' = Response("delete_product_image", "image_not_found")
                  /\ UNCHANGED products
             ELSE /\ products' = [ products EXCEPT ![product_id].image_urls =
                                    ListRemove(imgs_list, filename) ]
                  /\ response' = Response("delete_product_image", "image_deleted")


(***************************************************************************)
(* Catalog: index and puppies.  A listing is the set of the ids of the     *)
(* rows the query returns: neither query is ordered.                       *)
(***************************************************************************)
\* what a listing request is answered with
Listing(op, listed) == [ op |-> op, status |-> "listed", products |-> listed ]

\* Product.query.filter_by(is_available=True).all()
AvailableProducts == { id \in DOMAIN products : products[id].is_available }

\* the filter compared as it was submitted
FilterBreedRaw(breed) == breed

\* breed.strip().title()
FilterBreed(breed) == Title(Strip(breed))

\* the products of puppies: with a breed argument the available rows whose
\* breed column equals the normalised argument (a NULL column equals
\* nothing), without one the available rows whose breed is not NULL
PuppiesProducts(breed) ==
  IF breed # << >>
    THEN { id \in DOMAIN products :
             /\ products[id].breed # NoBreed
             /\ products[id].breed = FilterBreed(breed)
             /\ products[id].is_available }
    ELSE { id \in DOMAIN products :
             /\ products[id].breed # NoBreed
             /\ products[id].is_available }

index ==
  /\ UNCHANGED << db, current_user, settings_req >>
  /\ response' = Listing("index", AvailableProducts)

puppies(breed) ==
  /\ UNCHANGED << db, current_user, settings_req >>
  /\ response' = Listing("puppies", PuppiesProducts(breed))


(***************************************************************************)
(* Orders: generate_order_number, checkout, update_order_status,           *)
(* update_order_payment_status.                                            *)
(***************************************************************************)
\* f"VELY{datetime.now().strftime('%Y%m%d%H%M%S')}": the prefix and the
\* clock reading `now` to the second
generate_order_number(now) == << "VELY", now >>

\* the constraints without the unique order_number
OrderInsertNotNullOnly(order) ==
  /\ order.customer_name # None
  /\ order.customer_email # None

\* the constraints of table order on an insert: unique=True on order_number,
\* nullable=False on customer_name, customer_email and total_amount
OrderInsertOK(order) ==
  /\ order.customer_name # None
  /\ order.customer_email # None
  /\ \A i \in DOMAIN orders : orders[i].order_number # order.order_number

\* the price taken from the submitted total instead of the product
ItemPriceFromTotal(product, order) == order.total_amount

\* the price an OrderItem is given: the product's price as it is now
ItemPrice(product, order) == product.price

\* the user checkout links the order to
OrderUser == IF is_authenticated THEN current_user ELSE NoId

checkout(form, now) ==
  /\ UNCHANGED << users, products, next_product_id, site_settings, current_user, settings_req >>
  /\ IF FloatRaises(form.total_amount)
       THEN response' = Response("checkout", "error_500") /\ UNCHANGED << orders, order_items >>
     ELSE
       LET order == [ id |-> Len(orders) + 1,
                      order_number |-> generate_order_number(now),
                      user_id |-> OrderUser,
                      customer_name |-> form.name,
                      customer_email |-> form.email,
                      customer_phone |-> form.phone,
                      customer_address |-> form.address,
                      payment_method |-> form.payment_method,
                      payment_status |-> "pending",
                      status |-> "pending",
                      total_amount |-> Float(form.total_amount),
                      notes |-> form.notes ]
           product_id == form.product_id
       IN  IF ~OrderInsertOK(order)
             THEN response' = Response("checkout", "error_500") /\ UNCHANGED << orders, order_items >>
           ELSE IF product_id = NoId
             THEN /\ orders' = Append(orders, order)
                  /\ UNCHANGED order_items
                  /\ response' = Response("checkout", "order_placed")
           ELSE IF ~HasProduct(product_id)
             THEN response' = Response("checkout", "error_500") /\ UNCHANGED << orders, order_items >>
           ELSE /\ orders' = Append(orders, order)
                /\ order_items' = Append(order_items,
                     [ id |-> Len(order_items) + 1,
                       order_id |-> order.id,
                       product_id |-> product_id,
                       quantity |-> 1,
                       price |-> ItemPrice(ProductById(product_id), order) ])
                /\ response' = Response("checkout", "order_placed")

ORDER_STATUSES == { "pending", "processing", "completed", "cancelled" }

PAYMENT_STATUSES == { "pending", "paid", "refunded" }

\* a test that takes any status that is given
AnyOrderStatus(new_status) == new_status # None

\* new_status in [...] of update_order_status
ValidOrderStatus(new_status) == new_status \in ORDER_STATUSES

\* new_status in [...] of update_order_payment_status
ValidPaymentStatus(new_status) == new_status \in PAYMENT_STATUSES

update_order_status(order_id, new_status) ==
  /\ UNCHANGED << users, products, next_product_id, order_items,
                  site_settings, current_user, settings_req >>
  /\ IF GuardOutcome # "ok"
       THEN response' = Response("update_order_status", GuardOutcome) /\ UNCHANGED orders
     ELSE IF order_id \notin DOMAIN orders
       THEN response' = Response("update_order_status", "not_found") /\ UNCHANGED orders
     ELSE IF ValidOrderStatus(new_status)
       THEN /\ orders' = [ orders EXCEPT ![order_id].status = new_status ]
            /\ response' = Response("update_order_status", "success")
     ELSE response' = Response("update_order_status", "invalid_status") /\ UNCHANGED orders

update_order_payment_status(order_id, new_status) ==
  /\ UNCHANGED << users, products, next_product_id, order_items,
                  site_settings, current_user, settings_req >>
  /\ IF GuardOutcome # "ok"
       THEN response' = Response("update_order_payment_status", GuardOutcome) /\ UNCHANGED orders
     ELSE IF order_id \notin DOMAIN orders
       THEN response' = Response("update_order_payment_status", "not_found") /\ UNCHANGED orders
     ELSE IF ValidPaymentStatus(new_status)
       THEN /\ orders' = [ orders EXCEPT ![order_id].payment_status = new_status ]
            /\ response' = Response("update_order_payment_status", "success")
     ELSE response' = Response("update_order_payment_status", "invalid_payment_status") /\ UNCHANGED orders

(***************************************************************************)
(* Site settings: the POST of admin_site_settings, in the two steps that   *)
(* another worker thread's request can come between: the guard and         *)
(* SiteSettings.query.first(), then the insert or update and the commit.   *)
(***************************************************************************)
\* SiteSettings.query.first(): the id of the first row, or NoId
FirstSettings == IF site_settings = << >> THEN NoId ELSE 1

\* the row built from the form; the four social links are stripped
SettingsFields(form) ==
  [ location |-> form.location,
    phone |-> form.phone,
    whatsapp |-> form.whatsapp,
    contact_email |-> form.contact_email,
    business_hours |-> form.business_hours,
    social_links |->
      [ facebook |-> Strip(form.social_facebook),
        twitter |-> Strip(form.social_twitter),
        instagram |-> Strip(form.social_instagram),
        youtube |-> Strip(form.social_youtube) ] ]

admin_site_settings_read(t, form) ==
  /\ settings_req[t].pc = "idle"
  /\ UNCHANGED << db, current_user >>
  /\ IF GuardOutcome # "ok"
       THEN response' = Response("admin_site_settings", GuardOutcome) /\ UNCHANGED settings_req
       ELSE /\ settings_req' =
                 [ settings_req EXCEPT
                     ![t] = [ pc |-> "read", settings |-> FirstSettings,
                              form |-> form ] ]
            /\ response' = Response("admin_site_settings", "pending")

admin_site_settings_commit(t) ==
  /\ settings_req[t].pc = "read"
  /\ UNCHANGED << users, products, next_product_id, orders, order_items, current_user >>
  /\ LET settings == settings_req[t].settings
         fields == SettingsFields(settings_req[t].form)
     IN  IF settings = NoId
           THEN site_settings' = Append(site_settings, fields)
           ELSE site_settings' = [ site_settings EXCEPT ![settings] = fields ]
  /\ settings_req' = [ settings_req EXCEPT ![t] = [ pc |-> "idle" ] ]
  /\ response' = Response("admin_site_settings", "settings_updated")


(***************************************************************************)
(* The inputs of the requests.                                             *)
(***************************************************************************)
Usernames == { "admin", "alice", "bob", "carol", None }
Emails == { "admin@gmail.com", "alice@x.com", "bob@x.com", "carol@x.com", None }
Passwords == { "change_me", "pw" }
RegisterPasswords == { "pw", None }

ProductIds == 1 .. MaxProducts
OrderIds == 1 .. MaxOrders

ProductForm(name, breed, price, rating, detail_keys, detail_values) ==
  [ name |-> name, breed |-> breed, gender |-> "Male", age |-> "8 weeks",
    price |-> price, rating |-> rating, description |-> "A puppy",
    detail_keys |-> detail_keys, detail_values |-> detail_values ]

\* forms that differ in the price, one of them with a price that is no number
PriceForms ==
  { ProductForm("Buddy", Labrador, price, "4", << >>, << >>) :
      price \in { "500.0", "750", "abc" } }

PlainForm == ProductForm("Buddy", Labrador, "500.0", "4", << >>, << >>)

\* forms that differ in the submitted detail pairs: none, two full pairs, a
\* pair with an empty key beside one with an empty value, a repeated key
DetailForm(detail_keys, detail_values) ==
  ProductForm("Buddy", Labrador, "500.0", "4", detail_keys, detail_values)

DetailForms ==
  { DetailForm(<< >>, << >>),
    DetailForm(<< "color", "weight" >>, << "brown", "5kg" >>),
    DetailForm(<< "color", "", "weight" >>, << "black", "x", "" >>),
    DetailForm(<< "color", "color" >>, << "brown", "black" >>) }

\* forms that differ in the breed
BreedForm(breed) == ProductForm("Buddy", breed, "500.0", "4", << >>, << >>)

BreedForms == { BreedForm(breed) : breed \in Breeds }

CheckoutForm(name, total_amount, product_id) ==
  [ name |-> name, email |-> "ann@x.com", phone |-> "555", address |-> "1 Road",
    payment_method |-> "bank", total_amount |-> total_amount, notes |-> None,
    product_id |-> product_id ]

\* well-formed submissions, without a product and for each product id
GoodCheckoutForms ==
  { CheckoutForm(name, "500.0", product_id) :
      name \in { "Ann", "Bob" }, product_id \in { NoId } \cup ProductIds }

\* submissions without a name and with a total that is no number
BadCheckoutForms ==
  { CheckoutForm(None, "500.0", NoId), CheckoutForm("Ann", "abc", NoId) }

CheckoutForms == GoodCheckoutForms \cup BadCheckoutForms

\* well-formed submissions without a product
NumberForms ==
  { CheckoutForm(name, "500.0", NoId) : name \in { "Ann", "Bob" } }

\* the submissions of one customer
PricedCheckoutForms ==
  { CheckoutForm("Ann", "500.0", product_id) :
      product_id \in { NoId } \cup ProductIds }
    \cup BadCheckoutForms

\* the filenames a delete-image request names
ImageNames ==
  { << >>, UploadPath(FileAPng), UploadPath(FileBJpgUpper),
    UploadPath(FileMalwareExe) }

StatusInputs == ORDER_STATUSES \cup { "shipped", None }
PaymentInputs == PAYMENT_STATUSES \cup { "completed", None }

SettingsForm(location, facebook) ==
  [ location |-> location, phone |-> "555", whatsapp |-> "555",
    contact_email |-> "shop@x.com", business_hours |-> "9-5",
    social_facebook |-> facebook, social_twitter |-> << >>,
    social_instagram |-> << >>, social_youtube |-> << >> ]

SettingsForms ==
  { SettingsForm("Leeds", << " ", "f", "b", " " >>),
    SettingsForm("York", << >>) }

\* the caps that keep the tables of the model finite
UsersCap == Len(users') <= MaxUsers
ProductsCap == next_product_id' <= MaxProducts + 1
ImagesCap ==
  \A id \in DOMAIN products' : Len(products'[id].image_urls) <= MaxImages
OrdersCap == Len(orders') <= MaxOrders
ShopOrdersCap == Len(orders') <= MaxShopOrders
CatalogCap == next_product_id' <= MaxCatalog + 1

AdminLogin == user_login("admin", "change_me")

(***************************************************************************)
(* Accounts alone.                                                         *)
(***************************************************************************)
NextAccounts ==
  \/ \E u \in Usernames, e \in Emails, p \in RegisterPasswords :
       register(u, e, p) /\ UsersCap
  \/ \E u \in Usernames \ { None }, p \in Passwords : user_login(u, p)
  \/ logout

SpecAccounts == Init /\ [][NextAccounts]_vars

(***************************************************************************)
(* Products with prices and the checkouts that buy them.                   *)
(***************************************************************************)
NextPrices ==
  \/ AdminLogin
  \/ \E form \in PriceForms : add_product(form, << >>) /\ ProductsCap
  \/ \E id \in ProductIds, form \in PriceForms : edit_product(id, form, << >>)
  \/ \E form \in PricedCheckoutForms, now \in Times :
       checkout(form, now) /\ ShopOrdersCap

SpecPrices == Init /\ [][NextPrices]_vars

(***************************************************************************)
(* Checkouts against the clock.                                            *)
(***************************************************************************)
NextOrderNumbers ==
  \/ AdminLogin
  \/ logout
  \/ \E form \in NumberForms, now \in Times :
       checkout(form, now) /\ OrdersCap

SpecOrderNumbers == Init /\ [][NextOrderNumbers]_vars

(***************************************************************************)
(* Orders and their two statuses.                                          *)
(***************************************************************************)
NextStatus ==
  \/ AdminLogin
  \/ \E now \in Times :
       checkout(CheckoutForm("Ann", "500.0", NoId), now) /\ ShopOrdersCap
  \/ \E id \in OrderIds, new_status \in StatusInputs :
       update_order_status(id, new_status)
  \/ \E id \in OrderIds, new_status \in PaymentInputs :
       update_order_payment_status(id, new_status)

SpecStatus == Init /\ [][NextStatus]_vars

(***************************************************************************)
(* Products and their images.                                              *)
(***************************************************************************)
NextImages ==
  \/ AdminLogin
  \/ \E image_files \in FileLists :
       add_product(PlainForm, image_files) /\ ProductsCap /\ ImagesCap
  \/ \E id \in ProductIds, image_files \in FileLists :
       edit_product(id, PlainForm, image_files) /\ ImagesCap
  \/ \E id \in ProductIds, filename \in ImageNames :
       delete_product_image(id, filename)

SpecImages == Init /\ [][NextImages]_vars

(***************************************************************************)
(* Site settings saved from two worker threads.                            *)
(***************************************************************************)
NextSettings ==
  \/ AdminLogin
  \/ logout
  \/ \E t \in Threads, form \in SettingsForms : admin_site_settings_read(t, form)
  \/ \E t \in Threads : admin_site_settings_commit(t)

SpecSettings == Init /\ [][NextSettings]_vars


(***************************************************************************)
(* Products with breeds and the catalog listings.                          *)
(***************************************************************************)
NextCatalog ==
  \/ AdminLogin
  \/ logout
  \/ \E id \in ProductIds : delete_product(id)
  \/ \E form \in BreedForms : add_product(form, << >>) /\ ProductsCap
  \/ \E id \in ProductIds, form \in BreedForms : edit_product(id, form, << >>)
  \/ index
  \/ \E breed \in Breeds : puppies(breed)

SpecCatalog == Init /\ [][NextCatalog]_vars

(***************************************************************************)
(* Products edited: their images and their details.                        *)
(***************************************************************************)
EditFileLists ==
  { << >>, << FileAPng >>, << FileBJpgUpper, FileMalwareExe >> }

NextEdits ==
  \/ AdminLogin
  \/ logout
  \/ \E form \in DetailForms, image_files \in EditFileLists :
       add_product(form, image_files) /\ CatalogCap
  \/ \E id \in ProductIds, form \in DetailForms, image_files \in EditFileLists :
       edit_product(id, form, image_files) /\ ImagesCap

SpecEdits == Init /\ [][NextEdits]_vars

(***************************************************************************)
(* Products bought and deleted.                                            *)
(***************************************************************************)
NextDeletes ==
  \/ AdminLogin
  \/ add_product(PlainForm, << >>) /\ ProductsCap
  \/ \E product_id \in { NoId } \cup ProductIds, now \in Times :
       checkout(CheckoutForm("Ann", "500.0", product_id), now) /\ OrdersCap
  \/ \E id \in ProductIds : delete_product(id)

SpecDeletes == Init /\ [][NextDeletes]_vars

(***************************************************************************)
(* The whole storefront: a customer account beside the seeded admin, one   *)
(* shop order, and every admin operation.                                  *)
(***************************************************************************)
Next ==
  \/ register("alice", "alice@x.com", "pw") /\ UsersCap
  \/ \E u \in { "admin", "alice" }, p \in Passwords : user_login(u, p)
  \/ logout
  \/ \E product_id \in { NoId } \cup ProductIds :
       checkout(CheckoutForm("Ann", "500.0", product_id), 0) /\ ShopOrdersCap
  \/ add_product(PlainForm, << FileAPng >>) /\ CatalogCap
  \/ \E id \in ProductIds :
       edit_product(id, ProductForm("Rex", Labrador, "750", "4", << >>, << >>),
                    << >>)
  \/ \E id \in ProductIds : delete_product(id)
  \/ \E id \in ProductIds : delete_product_image(id, UploadPath(FileAPng))
  \/ \E id \in OrderIds : update_order_status(id, "completed")
  \/ \E id \in OrderIds : update_order_payment_status(id, "paid")
  \/ admin_site_settings_read(1, SettingsForm("Leeds", << >>))
  \/ admin_site_settings_commit(1)

Spec == Init /\ [][Next]_vars

(***************************************************************************)
(* Claims.                                                                 *)
(***************************************************************************)
UsernameInUse(username) == \E i \in DOMAIN users : users[i].username = username

EmailInUse(email) == \E i \in DOMAIN users : users[i].email = email

UniqueUsers ==
  \A i, j \in DOMAIN users :
    i # j => /\ users[i].username # users[j].username
             /\ users[i].email # users[j].email

\* the step is a register call whose username or e-mail is in use
RegistersDuplicate ==
  \E u \in Usernames, e \in Emails, p \in RegisterPasswords :
    /\ UsernameInUse(u) \/ EmailInUse(e)
    /\ register(u, e, p)

RefusedWithConflict ==
  /\ users' = users
  /\ response'.status \in { "username_exists", "email_registered" }

RegisterRefusesDuplicate ==
  response'.op = "register" => RefusedWithConflict \/ ~RegistersDuplicate

\* C1: starting from the store with the seeded admin, no two users ever share
\* a username or an e-mail, and a register call whose username or e-mail
\* belongs to an existing user is answered with a conflict and leaves the
\* users as they were.
C1_UniqueAccounts == []UniqueUsers /\ [][RegisterRefusesDuplicate]_vars

\* a second account exists and a register call with a taken e-mail has just
\* been refused
C1_Witness == Len(users) >= 2 /\ response.status = "email_registered"


ItemPriceSnapshot ==
  Len(order_items') > Len(order_items)
    => LET item == order_items'[Len(order_items')]
       IN  /\ Len(order_items') = Len(order_items) + 1
           /\ item.product_id \in DOMAIN products
           /\ item.price = products[item.product_id].price

ItemPriceKept ==
  \A i \in DOMAIN order_items :
    /\ i \in DOMAIN order_items'
    /\ order_items'[i].price = order_items[i].price

\* C2: the OrderItem a checkout creates carries the price the product has at
\* that moment, and no later step, an edit of the product's price included,
\* changes the price of an existing OrderItem.
C2_PriceSnapshot == [][ItemPriceSnapshot /\ ItemPriceKept]_vars

\* an OrderItem whose product has since been given another price
C2_Witness ==
  \E i \in DOMAIN order_items :
    /\ order_items[i].product_id \in DOMAIN products
    /\ products[order_items[i].product_id].price # order_items[i].price

\* C3: no two persisted orders have the same order number, whatever the clock
\* read at each checkout.
C3_UniqueOrderNumbers ==
  \A i, j \in DOMAIN orders :
    i # j => orders[i].order_number # orders[j].order_number

\* two orders are persisted and a further well-formed checkout has just been
\* refused: its clock reading was that of an earlier order
C3_Witness ==
  Len(orders) >= 2 /\ response = Response("checkout", "error_500")

\* the caller of the request is logged in with the admin flag set
CallerIsAdmin == current_user # NoId /\ users[current_user].is_admin

AdminOperations ==
  { "add_product", "edit_product", "delete_product", "delete_product_image",
    "update_order_status", "update_order_payment_status",
    "admin_site_settings" }

\* The step is a request entering an admin operation.  The commit of a
\* settings save is the second half of a request that was admitted before.
AdminRequest ==
  /\ response'.op \in AdminOperations
  /\ ~\E t \in Threads : admin_site_settings_commit(t)

AdminOnly ==
  AdminRequest /\ ~CallerIsAdmin
    => /\ response'.status \in { "login_required", "access_denied" }
       /\ response'.status = "login_required" <=> current_user = NoId
       /\ UNCHANGED << users, products, orders, order_items, site_settings,
                       settings_req >>

\* C4: an admin operation (product add, edit, delete, image delete, order
\* status update, order payment update, site-settings save) invoked by a
\* caller who is not logged in or whose admin flag is false is refused and
\* leaves products, orders, order items, users and site settings unchanged.
C4_AdminOnly == [][AdminOnly]_vars

\* a customer without the admin flag is logged in, a product and an order
\* exist, and the customer's request to delete the product was just refused
C4_Witness ==
  /\ current_user # NoId
  /\ ~users[current_user].is_admin
  /\ DOMAIN products # { }
  /\ orders # << >>
  /\ response = Response("delete_product", "access_denied")

StatusesInRange ==
  \A i \in DOMAIN orders :
    /\ orders[i].status \in { "pending", "processing", "completed", "cancelled" }
    /\ orders[i].payment_status \in { "pending", "paid", "refunded" }


InvalidStatusRefused ==
  \A id \in OrderIds :
    /\ \A s \in StatusInputs :
         /\ response'.op = "update_order_status"
         /\ s \notin { "pending", "processing", "completed", "cancelled" }
         /\ update_order_status(id, s)
         => /\ orders' = orders
            /\ CallerIsAdmin /\ id \in DOMAIN orders
                 => response'.status = "invalid_status"
    /\ \A s \in PaymentInputs :
         /\ response'.op = "update_order_payment_status"
         /\ s \notin { "pending", "paid", "refunded" }
         /\ update_order_payment_status(id, s)
         => /\ orders' = orders
            /\ CallerIsAdmin /\ id \in DOMAIN orders
                 => response'.status = "invalid_payment_status"

\* C5: every order's status is one of pending, processing, completed,
\* cancelled and its payment status one of pending, paid, refunded; a status
\* update or payment update with a value outside its set leaves the orders
\* unchanged and, from an admin on an existing order, is answered with the
\* validation error.
C5_StatusValues == []StatusesInRange /\ [][InvalidStatusRefused]_vars

\* an order has been moved to completed and paid, and an update with a value
\* outside the set has just been refused
C5_Witness ==
  /\ response.status = "invalid_status"
  /\ \E i \in DOMAIN orders :
       orders[i].status = "completed" /\ orders[i].payment_status = "paid"


WellFormedPurchase(form) ==
  /\ form.name # None
  /\ form.email # None
  /\ form.total_amount \in { "500.0", "750" }
  /\ form.product_id \in DOMAIN products

PurchasePersisted(form) ==
  /\ Len(orders') = Len(orders) + 1
  /\ Len(order_items') = Len(order_items) + 1
  /\ LET order == orders'[Len(orders')]
         item == order_items'[Len(order_items')]
     IN  /\ item.order_id = order.id
         /\ item.product_id = form.product_id
         /\ item.quantity = 1
         /\ order.user_id = current_user
         /\ order.customer_name = form.name
         /\ order.customer_email = form.email
         /\ order.customer_phone = form.phone
         /\ order.customer_address = form.address

\* C6: a checkout submission that supplies a product_id persists one Order
\* together with exactly one OrderItem of quantity 1 for that product; the
\* order's user is the logged-in caller, or NULL for a guest, and its
\* customer fields are the submitted ones.  Stated for the well-formed
\* submissions that name an existing product.
C6_CheckoutPersists ==
  [][\A form \in PricedCheckoutForms, now \in Times :
       /\ response'.op = "checkout"
       /\ WellFormedPurchase(form)
       /\ checkout(form, now)
       => PurchasePersisted(form)]_vars

\* C7: every persisted Order owns at least one OrderItem.
C7_OrderHasItems ==
  \A i \in DOMAIN orders :
    \E k \in DOMAIN order_items : order_items[k].order_id = orders[i].id

\* C8: the SiteSettings table holds at most one row, also when two admin
\* saves interleave between reading the row and committing.
C8_SingleSettingsRow == Len(site_settings) <= 1

RemovedOne(old, new, x) ==
  \E k \in DOMAIN old :
    /\ old[k] = x
    /\ new = SubSeq(old, 1, k - 1) \o SubSeq(old, k + 1, Len(old))

DeleteImageContract ==
  \A id \in ProductIds, filename \in ImageNames :
    /\ response'.op = "delete_product_image"
    /\ CallerIsAdmin /\ id \in DOMAIN products /\ filename # << >>
    /\ delete_product_image(id, filename)
    => IF \E k \in DOMAIN products[id].image_urls :
            products[id].image_urls[k] = filename
         THEN /\ response'.status = "image_deleted"
              /\ RemovedOne(products[id].image_urls,
                            products'[id].image_urls, filename)
              /\ \A other \in DOMAIN products \ { id } :
                   products'[other] = products[other]
         ELSE /\ response'.status = "image_not_found"
              /\ products' = products

\* C9: delete_product_image with a filename that is not in the product's image
\* list is answered not-found and leaves every product as it was; with a
\* filename that is in the list it removes that one entry from the stored
\* list.
C9_DeleteImage == [][DeleteImageContract]_vars

\* an image has just been deleted from a product that still lists the same
\* path once more, while another product exists
C9_Witness ==
  /\ response.status = "image_deleted"
  /\ \E id \in DOMAIN products :
       /\ UploadPath(FileAPng) \in Range(products[id].image_urls)
       /\ \E other \in DOMAIN products : other # id

\* the extension of a filename: what follows its last dot, in lower case
HasAllowedExtension(filename) ==
  \E i \in DOMAIN filename :
    /\ filename[i] = "."
    /\ \A j \in DOMAIN filename : j > i => filename[j] # "."
    /\ Lower(SubSeq(filename, i + 1, Len(filename)))
         \in { << "p", "n", "g" >>, << "j", "p", "g" >>,
               << "j", "p", "e", "g" >>, << "g", "i", "f" >>,
               << "w", "e", "b", "p" >>, << "b", "m", "p" >> }

\* the paths of the files with an allowed extension, in submission order
RecordedPaths ==
  [ image_files \in FileLists |->
      LET allowed == SelectSeq(image_files, HasAllowedExtension)
      IN  [ i \in DOMAIN allowed |-> UploadPath(secure_filename(allowed[i])) ] ]

UploadContract ==
  \A image_files \in FileLists :
    /\ /\ response'.op = "add_product"
       /\ CallerIsAdmin
       /\ add_product(PlainForm, image_files)
       => /\ response'.status = "product_added"
          /\ products'[next_product_id].image_urls = RecordedPaths[image_files]
    /\ \A id \in ProductIds :
         /\ response'.op = "edit_product"
         /\ CallerIsAdmin /\ id \in DOMAIN products
         /\ edit_product(id, PlainForm, image_files)
         => /\ response'.status = "product_updated"
            /\ \/ products'[id].image_urls =
                    products[id].image_urls \o RecordedPaths[image_files]
               \/ /\ products[id].image_urls # << >>
                  /\ products'[id].image_urls = products[id].image_urls

IsTrimmedTitleCase(breed) ==
  /\ breed # << >>
  /\ ~IsSpace(breed[1]) /\ ~IsSpace(breed[Len(breed)])
  /\ \A i \in DOMAIN breed :
       IsLetter(breed[i])
         => (IsUpper(breed[i]) <=> (i = 1 \/ ~IsLetter(breed[i - 1])))

StoredBreedsNormalized ==
  \A id \in DOMAIN products :
    \/ products[id].breed = NoBreed
    \/ /\ IsTrimmedTitleCase(products[id].breed)
       /\ Title(Strip(products[id].breed)) = products[id].breed

\* the available products whose stored breed is the filter trimmed and put
\* in title case
ProductsOfBreed(f) ==
  { id \in DOMAIN products :
      products[id].is_available /\ products[id].breed = Title(Strip(f)) }

ListingByBreed ==
  \A f \in Breeds \ { << >> } :
    response'.op = "puppies" /\ puppies(f)
      => response'.products = ProductsOfBreed(f)

CreatedLabradorListed ==
  /\ response'.op = "add_product"
  /\ CallerIsAdmin
  /\ add_product(BreedForm(Labrador), << >>)
  => \A f \in { LabradorTitled, LabradorSpaced, LabradorUpper } :
       next_product_id \in PuppiesProducts(f)'

C12_ListsAllAvailable ==
  [][response'.op = "puppies" /\ puppies(<< >>)
       => response'.products = { id \in DOMAIN products :
                                   products[id].is_available }]_vars

\* the pairs with both sides non-empty, the last one of each key
SubmittedDetails(detail_keys, detail_values) ==
  LET Pairs == DOMAIN detail_keys \cap DOMAIN detail_values
      Kept(i) == detail_keys[i] # "" /\ detail_values[i] # ""
  IN  { << detail_keys[i], detail_values[i] >> :
          i \in { i \in Pairs :
                    /\ Kept(i)
                    /\ \A j \in Pairs :
                         j > i /\ Kept(j) => detail_keys[j] # detail_keys[i] } }

EditCommits(id, form, image_files) ==
  /\ response'.op = "edit_product"
  /\ response'.status = "product_updated"
  /\ id \in DOMAIN products
  /\ edit_product(id, form, image_files)

EditAppendsImages ==
  \A id \in ProductIds, form \in DetailForms, image_files \in EditFileLists :
    EditCommits(id, form, image_files)
      => products'[id].image_urls
           = products[id].image_urls \o RecordedPaths[image_files]

EditReplacesDetails ==
  \A id \in ProductIds, form \in DetailForms, image_files \in EditFileLists :
    EditCommits(id, form, image_files)
      => products'[id].additional_details
           = SubmittedDetails(form.detail_keys, form.detail_values)

\* C13: after edit_product commits, the stored image list is the previous
\* list followed by the newly accepted uploads in submission order, and the
\* additional_details mapping is exactly the one built from the submitted
\* pairs with both sides non-empty.
C13_EditAppendsAndReplaces == [][EditAppendsImages /\ EditReplacesDetails]_vars

ItemsReferenceProducts ==
  \A i \in DOMAIN order_items :
    /\ order_items[i].product_id # NoId
    /\ order_items[i].product_id \in DOMAIN products

DeleteKeepsReferenced ==
  \A id \in ProductIds :
    /\ response'.op = "delete_product"
    /\ \E i \in DOMAIN order_items : order_items[i].product_id = id
    /\ delete_product(id)
    => /\ id \in DOMAIN products'
       /\ order_items' = order_items

\* C14: every OrderItem references a Product that still exists, whatever the
\* checkouts and delete_product calls; delete_product on a product that an
\* OrderItem references leaves no OrderItem pointing at a missing or NULL
\* product.
C14_ItemsReferenceProducts ==
  []ItemsReferenceProducts /\ [][DeleteKeepsReferenced]_vars

\* a product that was never bought has been deleted, and the deletion of a
\* product that an OrderItem references has just been refused
C14_Witness ==
  /\ response = Response("delete_product", "error_500")
  /\ order_items # << >>
  /\ \E id \in 1 .. next_product_id - 1 : id \notin DOMAIN products

====
